---- MODULE Spec2Model ----
(***************************************************************************)
(* A model of src/src/components/EventsDashboard.tsx: the EventsDashboard  *)
(* React component.  The component's state is the five useState cells; an  *)
(* invocation of fetchEvents is a coroutine that suspends at `await        *)
(* fetch(...)` and at `await response.json()`.  The notification sink      *)
(* (toast) is modelled by the number of notifications it was handed and    *)
(* the latest of them.                                                     *)
(*                                                                         *)
(* Strings built by template literals are sequences of their parts, e.g.   *)
(* `HTTP ${status}: ${statusText}` is <<"HTTP ", "500", ": ", "Oops">>.    *)
(*                                                                         *)
(* Where the language leaves a result to the engine or to timing (the     *)
(* order in which sort leaves elements that the comparator does not order  *)
(* consistently, the text of the SyntaxError of response.json()) the model *)
(* has every outcome of V8, the engine of Chrome and Node, and a step      *)
(* chooses one.                                                            *)
(*                                                                         *)
(* The buttons and inputs a user can act on are those of the latest        *)
(* render.  A state update made in an event handler is rendered before the *)
(* next event is delivered.  An update made elsewhere (in the mount        *)
(* effect, or when fetchEvents resumes from an await) is rendered by a     *)
(* later task, the step Render: until then the page shows the render       *)
(* before it.  The first render is committed before the mount effect runs; *)
(* an event delivered in between makes the effect run right after its      *)
(* handler.                                                                *)
(***************************************************************************)
EXTENDS Integers, Sequences, FiniteSets, TLC

VARIABLES
    events,        \* useState<QstashEvent[]>([])            (line 31)
    loading,       \* useState(false)                         (line 32)
    apiUrl,        \* useState(initialApiUrl)                 (line 33)
    showSettings,  \* useState(false)                         (line 34)
    bearerToken,   \* useState(initialBearerToken)            (line 35)
    mounted,       \* has the mount effect (lines 76-78) run
    inflight,      \* fetchEvents invocations suspended at an await
    toastCount,    \* number of toast() calls so far
    lastToast,     \* the notification the latest toast() call was handed
    started,       \* number of fetchEvents invocations so far
    crashed,       \* has a render thrown, which unmounts the component
    renderPending, \* is a state update waiting for the render of a later task
    disabled,      \* disabled={loading} as the latest render evaluated it
    body,          \* decodeBody: the argument (an event's body string)
    decoded        \* decodeBody: what the call produced

vars == <<events, loading, apiUrl, showSettings, bearerToken, mounted,
          inflight, toastCount, lastToast, started, crashed, renderPending,
          disabled, body, decoded>>

(***************************************************************************)
(* Bounds of the model.                                                    *)
(***************************************************************************)
MaxFetches == 2     \* fetchEvents invocations in one behaviour
MaxEvents == 2      \* items in the `events` list of one server response

Range(s) == {s[i] : i \in 1..Len(s)}

(***************************************************************************)
(* Configuration: lines 27-35.                                             *)
(***************************************************************************)
DefaultUrl == "http://localhost:8081"

\* import.meta.env.VITE_QSTASH_URL: unset (modelled as "") or set.
EnvUrls == {"", "https://qstash.example"}
\* import.meta.env.VITE_QSTASH_TOKEN
EnvTokens == {"", "env-token"}

\* what the user can type into the two inputs
UrlInputs == {"http://localhost:8081", "https://qstash.example"}
TokenInputs == {"", "env-token"}

\* env || fallback
InitialApiUrl(envUrl, defaultUrl) == IF envUrl # "" THEN envUrl ELSE defaultUrl

InitialBearerToken(envToken) == IF envToken # "" THEN envToken ELSE ""

(***************************************************************************)
(* JavaScript values as they come out of JSON.parse and response.json().   *)
(***************************************************************************)
Undefined == [t |-> "undefined"]
JNull == [t |-> "null"]
JBoolean(b) == [t |-> "boolean", b |-> b]
\* A finite Number, an IEEE 754 double.  bits is its binary significand,
\* most significant bit first, from the leading 1 to the last 1, and exp the
\* power of two of the leading bit: 5 is <<1, 0, 1>> with exp 2, 0.5 is <<1>>
\* with exp -1.  Zero has no bits; neg tells -0 from +0.
JNumber(neg, bits, exp) ==
    [t |-> "number", neg |-> neg, inf |-> FALSE, bits |-> bits, exp |-> exp]
\* Infinity and -Infinity
JInfinity(neg) ==
    [t |-> "number", neg |-> neg, inf |-> TRUE, bits |-> <<>>, exp |-> 0]
\* s: the sequence of the string's characters
JString(s) == [t |-> "string", s |-> s]
JArray(items) == [t |-> "array", items |-> items]
\* props: a sequence of <<key, value>> pairs with distinct keys, in the order
\* in which the object enumerates its properties
JObject(props) == [t |-> "object", props |-> props]

\* ToBoolean
Truthy(v) ==
    CASE v.t = "undefined" -> FALSE
      [] v.t = "null" -> FALSE
      [] v.t = "boolean" -> v.b
      [] v.t = "number" -> v.inf \/ v.bits # <<>>
      [] v.t = "string" -> v.s # <<>>
      [] OTHER -> TRUE

\* a || b
Or(a, b) == IF Truthy(a) THEN a ELSE b

\* Array.isArray
IsArray(v) == v.t = "array"

\* v[key] for a string key that is no array index and no built-in property:
\* a TypeError on null and undefined, the own property of an object,
\* undefined on everything else.
GetProp(v, key) ==
    IF v.t \in {"null", "undefined"}
    THEN [threw |-> TRUE,
          error |-> [isError |-> TRUE,
                     message |-> <<"Cannot read properties of ", v.t,
                                   " (reading '">> \o key \o <<"')">>]]
    ELSE IF v.t = "object" /\ \E i \in 1..Len(v.props) : v.props[i][1] = key
    THEN [threw |-> FALSE,
          value |-> v.props[CHOOSE i \in 1..Len(v.props) : v.props[i][1] = key][2]]
    ELSE [threw |-> FALSE, value |-> Undefined]

(***************************************************************************)
(* The items of an `events` list.  QstashEvent (lines 9-19) is a type of   *)
(* the compiler only: response.json() yields whatever the server sent, so  *)
(* an item may lack `time` or `state`, or be null.  An item that is an     *)
(* object is a record of the fields the component reads; hasTime and       *)
(* hasState tell whether the object has the property (time is 0 when it    *)
(* has not, and never read).                                               *)
(***************************************************************************)
Event(i, time) ==
    [t |-> "event", messageId |-> "m" \o ToString(i),
     hasTime |-> TRUE, time |-> time, hasState |-> TRUE]

EventWithoutTime(i) ==
    [t |-> "event", messageId |-> "m" \o ToString(i),
     hasTime |-> FALSE, time |-> 0, hasState |-> TRUE]

EventWithoutState(i, time) ==
    [t |-> "event", messageId |-> "m" \o ToString(i),
     hasTime |-> TRUE, time |-> time, hasState |-> FALSE]

\* the property name "time"
TimeKey == <<"t", "i", "m", "e">>

(***************************************************************************)
(* Array.prototype.sort with comparator (a, b) => b.time - a.time          *)
(* (line 56), as V8 sorts an array of fewer than 64 elements.  Every       *)
(* element after a sorted front is placed into it by binary search.  The   *)
(* sorted front is the longest run at the start that is already in order   *)
(* (reversed when it is strictly out of order); the V8 of Chrome 147 takes *)
(* the first element alone as the front when the array has at most 7       *)
(* elements.  The two agree whenever the comparator orders the elements    *)
(* consistently, that is, when every element has a time.                   *)
(***************************************************************************)
\* the comparator as sort sees it, on items that are objects: undefined - n
\* and n - undefined are NaN, which sort reads as +0
Compare(a, b) == IF a.hasTime /\ b.hasTime THEN b.time - a.time ELSE 0

\* the last index of the run that starts the list, scanning from idx
RECURSIVE RunEnd(_, _, _)
RunEnd(list, idx, descending) ==
    IF idx > Len(list) THEN Len(list)
    ELSE LET order == Compare(list[idx], list[idx - 1])
         IN  IF (descending /\ order >= 0) \/ (~descending /\ order < 0)
             THEN idx - 1
             ELSE RunEnd(list, idx + 1, descending)

Reverse(s) == [i \in 1..Len(s) |-> s[Len(s) + 1 - i]]

\* the length of the first run, and the list with that run in order
CountAndMakeRun(list) ==
    LET descending == Compare(list[2], list[1]) < 0
        n == RunEnd(list, 3, descending)
    IN  [length |-> n,
         list |-> IF descending
                  THEN Reverse(SubSeq(list, 1, n)) \o SubSeq(list, n + 1, Len(list))
                  ELSE list]

\* the index at which pivot goes into the sorted list[left..right-1]
RECURSIVE BinarySearch(_, _, _, _)
BinarySearch(list, pivot, left, right) ==
    IF left >= right THEN left
    ELSE LET mid == left + ((right - left) \div 2)
         IN  IF Compare(pivot, list[mid]) < 0
             THEN BinarySearch(list, pivot, left, mid)
             ELSE BinarySearch(list, pivot, mid + 1, right)

\* list[1..start-1] is in order; the elements from start on are placed
RECURSIVE BinaryInsertionSort(_, _)
BinaryInsertionSort(list, start) ==
    IF start > Len(list) THEN list
    ELSE LET pivot == list[start]
             left == BinarySearch(list, pivot, 1, start)
         IN  BinaryInsertionSort(
                 SubSeq(list, 1, left - 1) \o <<pivot>>
                 \o SubSeq(list, left, start - 1)
                 \o SubSeq(list, start + 1, Len(list)),
                 start + 1)

\* the longest array that is sorted without looking for a run
SmallArrayLength == 7

\* the outcomes of sort.  A list of fewer than two items is returned as it
\* is, the comparator not called; in a longer list every item is compared
\* at least once, so that a null item raises.
SortEvents(list) ==
    IF Len(list) < 2 THEN {[threw |-> FALSE, value |-> list]}
    ELSE IF \E i \in 1..Len(list) : list[i].t = "null"
    THEN {GetProp(JNull, TimeKey)}
    ELSE LET run == CountAndMakeRun(list)
         IN  {[threw |-> FALSE, value |-> BinaryInsertionSort(run.list, run.length + 1)]}
             \cup (IF Len(list) <= SmallArrayLength
                   THEN {[threw |-> FALSE, value |-> BinaryInsertionSort(list, 2)]}
                   ELSE {})

(***************************************************************************)
(* The server's side of GET {apiUrl}/v2/logs: what fetch() settles with,   *)
(* and the body that response.json() reads.                                *)
(***************************************************************************)
\* the timestamps of events: two events can be older, newer or of one time
Times == {1, 2}

\* an event at position i of a response; messageId names the position
Items(i) == {Event(i, time) : time \in Times}

\* lists with an item that is null or lacks `state` or `time`, and a list
\* of four items, on which the outcomes of sort differ
ExampleLists ==
    {<<JNull>>, <<JNull, JNull>>, <<Event(1, 1), JNull>>,
     <<EventWithoutState(1, 1)>>, <<Event(1, 1), EventWithoutState(2, 2)>>,
     <<EventWithoutTime(1)>>, <<Event(1, 1), EventWithoutTime(2)>>,
     <<EventWithoutTime(1), Event(2, 2)>>,
     <<Event(1, 1), EventWithoutTime(2), Event(3, 2)>>,
     <<Event(1, 1), Event(2, 1), EventWithoutTime(3), Event(4, 2)>>}

\* every list of at most MaxEvents events, and the examples
EventLists ==
    UNION {{l \in [1..n -> UNION {Items(i) : i \in 1..n}] :
               \A i \in 1..n : l[i] \in Items(i)} : n \in 0..MaxEvents}
    \cup ExampleLists

\* a response body: text that is not JSON, or the value that JSON text holds
NotJson(text) == [valid |-> FALSE, text |-> text]
Json(v) == [valid |-> TRUE, data |-> v]

\* an empty body, and the error page of a proxy
EmptyText == ""
HtmlText == "<!doctype html><title>502 Bad Gateway</title>"
InvalidBodies == {NotJson(EmptyText), NotJson(HtmlText)}

\* the property names "events" and "cursor"
EventsKey == <<"e", "v", "e", "n", "t", "s">>
CursorKey == <<"c", "u", "r", "s", "o", "r">>

\* values of the `events` field that are not lists
NonListValues ==
    {JNull, JObject(<<>>), JString(<<"o", "o", "p", "s">>), JString(<<>>),
     JNumber(FALSE, <<>>, 0), JNumber(FALSE, <<1, 0, 1>>, 2), JBoolean(FALSE)}

\* parsed bodies without a list under `events`
MalformedData ==
    {JNull, JNumber(FALSE, <<1, 1, 1>>, 2), JString(<<"t", "e", "x", "t">>),
     JArray(<<>>), JObject(<<>>),
     JObject(<< <<CursorKey, JString(<<"c", "1">>)>> >>)}
    \cup {JObject(<< <<EventsKey, v>> >>) : v \in NonListValues}

WellFormedData == {JObject(<< <<EventsKey, JArray(l)>> >>) : l \in EventLists}

Bodies == InvalidBodies \cup {Json(v) : v \in MalformedData \cup WellFormedData}

NoResponse == [kind |-> "none"]

\* fetch() rejects: no connection, CORS, malformed URL
NetworkFailure ==
    [kind |-> "reject",
     error |-> [isError |-> TRUE, message |-> <<"Failed to fetch">>]]

\* fetch() resolves when the status line and the headers have arrived
HttpResponse(status, statusText) ==
    [kind |-> "response", status |-> status, statusText |-> statusText]

StatusTexts == {<<200, "OK">>, <<404, "Not Found">>, <<500, "Internal Server Error">>}

Responses == {NetworkFailure} \cup {HttpResponse(st[1], st[2]) : st \in StatusTexts}

(***************************************************************************)
(* fetchEvents, lines 38-74.                                               *)
(***************************************************************************)
\* the headers without the test of line 42
BuildHeadersAlways(token) == {<<"Authorization", "Bearer " \o token>>}

\* lines 41-44
BuildHeaders(token) ==
    IF token # "" THEN {<<"Authorization", "Bearer " \o token>>} ELSE {}

\* lines 45-47: fetch(`${apiUrl}/v2/logs`, { headers })
BuildRequest(url, token) ==
    [method |-> "GET", url |-> url \o "/v2/logs", headers |-> BuildHeaders(token)]

\* a status test that lets 4xx and 5xx through
ResponseOkNoUpperBound(r) == r.status >= 200

\* line 48, response.ok: a status in 200..299
ResponseOk(r) == r.status >= 200 /\ r.status <= 299

\* line 49: new Error(`HTTP ${response.status}: ${response.statusText}`)
HttpError(r) ==
    [isError |-> TRUE,
     message |-> <<"HTTP ", ToString(r.status), ": ", r.statusText>>]

\* the message of the SyntaxError that JSON text raises in V8, for the two
\* texts of InvalidBodies
JsonSyntaxError(text) ==
    IF text = EmptyText THEN "Unexpected end of JSON input"
    ELSE "Unexpected token '<', \"<!doctype \"... is not valid JSON"

\* what Chrome puts before that message when the whole body has arrived by
\* the time json() is called, and what it puts otherwise
MessagePrefixes == {"Failed to execute 'json' on 'Response': ", ""}

\* the messages response.json() can reject with
SyntaxErrorMessages(text) == {<<prefix \o JsonSyntaxError(text)>> : prefix \in MessagePrefixes}

\* a response.json() that yields {} for text that is not JSON
ResponseJsonLenient(b) ==
    IF b.valid THEN {[threw |-> FALSE, value |-> b.data]}
    ELSE {[threw |-> FALSE, value |-> JObject(<<>>)]}

\* line 51: the outcomes of response.json(), which rejects with a SyntaxError
\* on text that is not JSON
ResponseJson(b) ==
    IF b.valid THEN {[threw |-> FALSE, value |-> b.data]}
    ELSE {[threw |-> TRUE, error |-> [isError |-> TRUE, message |-> message]] :
             message \in SyntaxErrorMessages(b.text)}

\* lines 52-56: data['events'] || [], then the outcomes of sort, or the
\* TypeError that reading a property of null raises
SortedEventsOf(data) ==
    LET got == GetProp(data, EventsKey)
    IN  IF got.threw THEN {got}
        ELSE LET ev == Or(got.value, JArray(<<>>))
             IN  SortEvents(IF IsArray(ev) THEN ev.items ELSE <<>>)

\* lines 60-63
SuccessToast(sortedEvents) ==
    [title |-> "Events refreshed",
     description |-> <<"Loaded ", ToString(Len(sortedEvents)), " events">>,
     variant |-> "default"]

\* lines 66-70
FailureToast(error) ==
    [title |-> "Failed to fetch events",
     description |-> IF error.isError THEN error.message
                     ELSE <<"Unknown error occurred">>,
     variant |-> "destructive"]

\* line 187, events.filter(e => e.state.toLowerCase() === 'active'): a
\* render of this list raises a TypeError on an item that is null or has no
\* `state`
RenderThrows(list) ==
    \E i \in 1..Len(list) : list[i].t = "null" \/ ~list[i].hasState

(***************************************************************************)
(* The steps of a fetchEvents invocation.  Every step leaves the           *)
(* configuration cells alone; the caller says so, and says what the page   *)
(* shows after a start.  The state cells hold what the setters were last   *)
(* handed, also once a render has thrown and no render shows them.         *)
(***************************************************************************)
\* a start of fetchEvents that also calls setEvents([])
StartFetchClearingEvents ==
    /\ started < MaxFetches
    /\ loading' = TRUE
    /\ started' = started + 1
    /\ inflight' = inflight \cup
          {[id |-> started + 1, pc |-> "fetch",
            request |-> BuildRequest(apiUrl, bearerToken),
            response |-> NoResponse]}
    /\ events' = <<>>
    /\ UNCHANGED <<toastCount, lastToast, crashed>>

\* lines 38-47, up to the first await: setLoading(true), the request is issued
StartFetch ==
    /\ started < MaxFetches
    /\ loading' = TRUE
    /\ started' = started + 1
    /\ inflight' = inflight \cup
          {[id |-> started + 1, pc |-> "fetch",
            request |-> BuildRequest(apiUrl, bearerToken),
            response |-> NoResponse]}
    /\ UNCHANGED <<events, toastCount, lastToast, crashed>>

\* a catch block that does not call toast
FailSilently(f, error) ==
    /\ loading' = FALSE
    /\ renderPending' = TRUE
    /\ inflight' = inflight \ {f}
    /\ UNCHANGED <<events, toastCount, lastToast, started, crashed, disabled>>

\* lines 64-73: catch, then finally
Fail(f, error) ==
    /\ toastCount' = toastCount + 1
    /\ lastToast' = FailureToast(error)
    /\ loading' = FALSE
    /\ renderPending' = TRUE
    /\ inflight' = inflight \ {f}
    /\ UNCHANGED <<events, started, crashed, disabled>>

\* a success that publishes its list only when no later fetch was started
SucceedUnlessSuperseded(f, sortedEvents) ==
    /\ events' = IF f.id # started THEN events ELSE sortedEvents
    /\ toastCount' = toastCount + 1
    /\ lastToast' = SuccessToast(sortedEvents)
    /\ loading' = FALSE
    /\ renderPending' = TRUE
    /\ inflight' = inflight \ {f}
    /\ UNCHANGED <<started, crashed, disabled>>

\* lines 58-63, then finally (lines 71-73)
Succeed(f, sortedEvents) ==
    /\ events' = sortedEvents
    /\ toastCount' = toastCount + 1
    /\ lastToast' = SuccessToast(sortedEvents)
    /\ loading' = FALSE
    /\ renderPending' = TRUE
    /\ inflight' = inflight \ {f}
    /\ UNCHANGED <<started, crashed, disabled>>

\* the mount effect is due: an event was handled after the first render and
\* before the effect, which runs next
EffectDue == ~mounted /\ (started > 0 \/ showSettings)

\* lines 45-51: fetch() settles with r, the server's answer or a failure of
\* the network, and fetchEvents resumes from `await fetch(...)`
FetchSettled(f, r) ==
    /\ ~EffectDue
    /\ f \in inflight
    /\ f.pc = "fetch"
    /\ IF r.kind = "reject" THEN Fail(f, r.error)
       ELSE IF ~ResponseOk(r) THEN Fail(f, HttpError(r))
       ELSE /\ inflight' = (inflight \ {f}) \cup {[f EXCEPT !.pc = "json", !.response = r]}
            /\ UNCHANGED <<events, loading, toastCount, lastToast, started, crashed,
                           renderPending, disabled>>
    /\ UNCHANGED <<apiUrl, showSettings, bearerToken, mounted, body, decoded>>

\* lines 51-73: the body b of the response has arrived and fetchEvents
\* resumes from `await response.json()`
JsonSettled(f, b) ==
    /\ ~EffectDue
    /\ f \in inflight
    /\ f.pc = "json"
    /\ \E parsed \in ResponseJson(b) :
          IF parsed.threw THEN Fail(f, parsed.error)
          ELSE \E sorted \in SortedEventsOf(parsed.value) :
                   IF sorted.threw THEN Fail(f, sorted.error)
                   ELSE Succeed(f, sorted.value)
    /\ UNCHANGED <<apiUrl, showSettings, bearerToken, mounted, body, decoded>>

(***************************************************************************)
(* The component: the mount effect, the render of a later task and the     *)
(* user's actions.  A component whose render has thrown is unmounted: it   *)
(* has no buttons and no inputs.                                           *)
(***************************************************************************)
\* lines 76-78: useEffect(() => { fetchEvents(); }, [])
Mount ==
    /\ ~mounted
    /\ mounted' = TRUE
    /\ StartFetch
    /\ renderPending' = TRUE
    /\ UNCHANGED <<apiUrl, showSettings, bearerToken, disabled, body, decoded>>

\* lines 106-301: the render of the updates made outside an event handler.
\* It throws at line 187 on an item without `state`; otherwise the buttons
\* get disabled={loading} (lines 128 and 160).
Render ==
    /\ ~crashed
    /\ ~EffectDue
    /\ renderPending
    /\ renderPending' = FALSE
    /\ crashed' = RenderThrows(events)
    /\ disabled' = IF RenderThrows(events) THEN disabled ELSE loading
    /\ UNCHANGED <<events, loading, apiUrl, showSettings, bearerToken, mounted,
                   inflight, toastCount, lastToast, started, body, decoded>>

\* line 128: <Button onClick={fetchEvents} disabled={loading}>.  The render
\* that follows the click shows loading = true.
RefreshClick ==
    /\ ~crashed
    /\ ~EffectDue
    /\ ~disabled
    /\ StartFetch
    /\ disabled' = TRUE
    /\ UNCHANGED <<apiUrl, showSettings, bearerToken, mounted, renderPending,
                   body, decoded>>

\* lines 160-162, inside {showSettings && ...}
UpdateClick ==
    /\ ~crashed
    /\ ~EffectDue
    /\ showSettings
    /\ ~disabled
    /\ StartFetch
    /\ disabled' = TRUE
    /\ UNCHANGED <<apiUrl, showSettings, bearerToken, mounted, renderPending,
                   body, decoded>>

\* line 123
ToggleSettings ==
    /\ ~crashed
    /\ ~EffectDue
    /\ showSettings' = ~showSettings
    /\ UNCHANGED <<events, loading, apiUrl, bearerToken, mounted, inflight,
                   toastCount, lastToast, started, crashed, renderPending,
                   disabled, body, decoded>>

\* an onChange that also refetches, as an effect depending on apiUrl would
EditApiUrlAndFetch(v) ==
    /\ ~crashed
    /\ ~EffectDue
    /\ showSettings
    /\ v # apiUrl
    /\ apiUrl' = v
    /\ StartFetch
    /\ disabled' = TRUE
    /\ UNCHANGED <<showSettings, bearerToken, mounted, renderPending, body, decoded>>

\* lines 144-149: onChange={(e) => setApiUrl(e.target.value)}
EditApiUrl(v) ==
    /\ ~crashed
    /\ ~EffectDue
    /\ showSettings
    /\ v # apiUrl
    /\ apiUrl' = v
    /\ UNCHANGED <<events, loading, showSettings, bearerToken, mounted, inflight,
                   toastCount, lastToast, started, crashed, renderPending,
                   disabled, body, decoded>>

\* lines 152-158: onChange={(e) => setBearerToken(e.target.value)}
EditBearerToken(v) ==
    /\ ~crashed
    /\ ~EffectDue
    /\ showSettings
    /\ v # bearerToken
    /\ bearerToken' = v
    /\ UNCHANGED <<events, loading, apiUrl, showSettings, mounted, inflight,
                   toastCount, lastToast, started, crashed, renderPending,
                   disabled, body, decoded>>

NoToast == [title |-> "", description |-> <<>>, variant |-> ""]
NoBody == <<>>
NotDecoded == [t |-> "undefined"]

Init ==
    /\ events = <<>>
    /\ loading = FALSE
    /\ apiUrl \in {InitialApiUrl(e, DefaultUrl) : e \in EnvUrls}
    /\ showSettings = FALSE
    /\ bearerToken \in {InitialBearerToken(e) : e \in EnvTokens}
    /\ mounted = FALSE
    /\ inflight = {}
    /\ toastCount = 0
    /\ lastToast = NoToast
    /\ started = 0
    /\ crashed = FALSE
    /\ renderPending = FALSE
    /\ disabled = FALSE
    /\ body = NoBody
    /\ decoded = NotDecoded

Next ==
    \/ Mount
    \/ Render
    \/ RefreshClick
    \/ UpdateClick
    \/ ToggleSettings
    \/ \E v \in UrlInputs : EditApiUrl(v)
    \/ \E v \in TokenInputs : EditBearerToken(v)
    \/ \E f \in inflight : \E r \in Responses : FetchSettled(f, r)
    \/ \E f \in inflight : \E b \in Bodies : JsonSettled(f, b)

Spec == Init /\ [][Next]_vars

(***************************************************************************)
(* Properties of the dashboard.                                            *)
(***************************************************************************)
\* the invocations that the step completes, and those it starts
Completed == {f \in inflight : \A g \in inflight' : g.id # f.id}
Started == {g \in inflight' : \A f \in inflight : f.id # g.id}

\* a parsed body that carries a list under `events`
HasEventList(v) ==
    /\ v.t = "object"
    /\ \E i \in 1..Len(v.props) : v.props[i][1] = EventsKey /\ v.props[i][2].t = "array"

\* C1: in every reachable state the events list is sorted descending by time:
\* every adjacent pair (a, b) has a.time >= b.time.
C1_EventsSortedDescending ==
    \A i \in 1..(Len(events) - 1) :
        /\ events[i].t = "event" /\ events[i].hasTime
        /\ events[i + 1].t = "event" /\ events[i + 1].hasTime
        /\ events[i].time >= events[i + 1].time

\* C2: a 2xx response whose parsed body omits `events` or carries a value
\* that is not a list (a null, number or string body included) is handled on
\* the success path: the events list becomes empty and a success
\* notification, not a failure, is emitted.
C2_MalformedShapeGivesEmptyList ==
    [][\A f \in inflight : \A b \in Bodies :
          (/\ f.pc = "json"
           /\ f.response.status \in 200..299
           /\ b.valid
           /\ ~HasEventList(b.data)
           /\ JsonSettled(f, b))
          => (/\ events' = <<>>
              /\ toastCount' = toastCount + 1
              /\ lastToast'.variant # "destructive"
              /\ lastToast'.title = "Events refreshed")]_vars

\* C3: a response with a non-success status makes fetchEvents emit one
\* failure notification whose description contains the status and the
\* status text, no success notification, and leaves loading = false.
C3_HttpErrorIsReported ==
    [][\A f \in inflight : \A r \in Responses :
          (/\ r.kind = "response"
           /\ r.status \notin 200..299
           /\ FetchSettled(f, r))
          => (/\ f \in Completed
              /\ toastCount' = toastCount + 1
              /\ lastToast'.title = "Failed to fetch events"
              /\ lastToast'.variant = "destructive"
              /\ ToString(r.status) \in Range(lastToast'.description)
              /\ r.statusText \in Range(lastToast'.description)
              /\ loading' = FALSE)]_vars

\* a 500 has been reported and the fetch is over
C3_Witness ==
    /\ lastToast.variant = "destructive"
    /\ lastToast.description = <<"HTTP ", "500", ": ", "Internal Server Error">>
    /\ inflight = {}
    /\ loading = FALSE

\* C4 as claimed: a 2xx body that is not JSON is normalized to an empty
\* event list and no failure notification is emitted.
C4_ParseErrorIsSilent ==
    [][\A f \in inflight : \A b \in InvalidBodies :
          (f.pc = "json" /\ ~b.valid /\ JsonSettled(f, b))
          => (events' = <<>> /\ lastToast'.variant # "destructive")]_vars

\* C4 as amended: a 2xx body that is not JSON makes fetchEvents emit one
\* failure notification carrying the parse error's message, leave the events
\* list as it was, and clear loading.
C4_ParseErrorIsReported ==
    [][\A f \in inflight : \A b \in InvalidBodies :
          (f.pc = "json" /\ ~b.valid /\ JsonSettled(f, b))
          => (/\ f \in Completed
              /\ events' = events
              /\ toastCount' = toastCount + 1
              /\ lastToast'.title = "Failed to fetch events"
              /\ lastToast'.variant = "destructive"
              /\ \E prefix \in {"Failed to execute 'json' on 'Response': ", ""} :
                    lastToast'.description =
                       (IF b.text = ""
                        THEN <<prefix \o "Unexpected end of JSON input">>
                        ELSE <<prefix \o "Unexpected token '<', \"<!doctype \"... is not valid JSON">>)
              /\ loading' = FALSE)]_vars

\* the parse error of an empty body has been reported while the events of an
\* earlier fetch stay
C4_Witness ==
    /\ lastToast.variant = "destructive"
    /\ lastToast.description =
          <<"Failed to execute 'json' on 'Response': Unexpected end of JSON input">>
    /\ events # <<>>
    /\ inflight = {}
    /\ loading = FALSE

\* C5 as claimed: the events list is emptied when a fetch cycle starts, so
\* the state holds no events while a fetch is in flight or after it failed.
C5_EventsResetAtFetchStart ==
    /\ inflight # {} => events = <<>>
    /\ lastToast.variant = "destructive" => events = <<>>

\* C5 as amended: the start of a fetch cycle sets loading and leaves the
\* events list as it is, and so does a failed fetch: the events of the latest
\* successful fetch stay in the state.
C5_EventsKeptAtFetchStart ==
    [][/\ Started # {} => (loading' = TRUE /\ events' = events)
       /\ (toastCount' # toastCount /\ lastToast'.variant = "destructive")
             => events' = events]_vars

\* a fetch is in flight and the events of an earlier fetch are still there
C5_Witness ==
    /\ inflight # {}
    /\ loading = TRUE
    /\ events # <<>>

\* C6: the request carries no Authorization header when the bearer token at
\* trigger time is empty, and exactly "Bearer " followed by the token
\* otherwise.
C6_AuthorizationHeader ==
    [][\A g \in Started :
          LET auth == {h \in g.request.headers : h[1] = "Authorization"}
          IN  IF bearerToken = "" THEN auth = {}
              ELSE auth = {<<"Authorization", "Bearer " \o bearerToken>>}]_vars

\* a refetch was sent with the configured token in its header
C6_Witness ==
    \E f \in inflight :
        /\ f.id = 2
        /\ f.request.headers = {<<"Authorization", "Bearer env-token">>}

SortedFrom ==
    [s \in {o.value : o \in {o \in UNION {SortEvents(l) : l \in EventLists} : ~o.threw}} |->
        UNION {IF [threw |-> FALSE, value |-> s] \in SortEvents(l) THEN {l} ELSE {} :
                 l \in EventLists}]

C10_EditsTakeEffectOnTrigger ==
    [][/\ (apiUrl' # apiUrl \/ bearerToken' # bearerToken)
          => UNCHANGED <<events, loading, inflight, started, toastCount, lastToast>>
       /\ \A g \in Started :
             /\ g.request.url = apiUrl \o "/v2/logs"
             /\ g.request.headers =
                   (IF bearerToken = "" THEN {}
                    ELSE {<<"Authorization", "Bearer " \o bearerToken>>})
       /\ \A f \in inflight : \A g \in inflight' :
             f.id = g.id => g.request = f.request]_vars

\* both settings were edited while the request in flight keeps the old ones
C10_Witness ==
    \E f \in inflight :
        /\ f.request.url # apiUrl \o "/v2/logs"
        /\ f.request.headers # BuildHeaders(bearerToken)

(***************************************************************************)
(* decodeBody, lines 97-104.  A JavaScript string is a sequence of         *)
(* characters, each a one-character string for U+0020..U+007E and "<n>"    *)
(* for any other code unit n: atob("AA==") is <<"<0>">>.  The grave accent *)
(* U+0060 cannot be written in a string of this language and is "<96>".    *)
(***************************************************************************)
Printable ==
    <<
      " ", "!", "\"", "#", "$", "%", "&", "'", "(", ")", "*", "+",
      ",", "-", ".", "/", "0", "1", "2", "3", "4", "5", "6", "7",
      "8", "9", ":", ";", "<", "=", ">", "?", "@", "A", "B", "C",
      "D", "E", "F", "G", "H", "I", "J", "K", "L", "M", "N", "O",
      "P", "Q", "R", "S", "T", "U", "V", "W", "X", "Y", "Z", "[",
      "\\", "]", "^", "_", "<96>", "a", "b", "c", "d", "e", "f", "g",
      "h", "i", "j", "k", "l", "m", "n", "o", "p", "q", "r", "s",
      "t", "u", "v", "w", "x", "y", "z", "{", "|", "}", "~"
    >>

\* String.fromCharCode
Chr(n) == IF n \in 32..126 THEN Printable[n - 31] ELSE "<" \o ToString(n) \o ">"

Base64Alphabet ==
    <<
      "A", "B", "C", "D", "E", "F", "G", "H", "I", "J", "K", "L", "M",
      "N", "O", "P", "Q", "R", "S", "T", "U", "V", "W", "X", "Y", "Z",
      "a", "b", "c", "d", "e", "f", "g", "h", "i", "j", "k", "l", "m",
      "n", "o", "p", "q", "r", "s", "t", "u", "v", "w", "x", "y", "z",
      "0", "1", "2", "3", "4", "5", "6", "7", "8", "9", "+", "/"
    >>

Base64Value(c) == (CHOOSE i \in 1..64 : Base64Alphabet[i] = c) - 1

\* ASCII whitespace: TAB, LF, FF, CR, SPACE
AsciiWhitespace == {Chr(9), Chr(10), Chr(12), Chr(13), " "}

\* s without the characters of set
Without(s, set) == SelectSeq(s, LAMBDA c : c \notin set)

\* the bytes that the 6-bit values `sextets` hold: four sextets make three
\* bytes; a last group of two or three gives one or two bytes, its low bits
\* dropped
Base64Bytes(sextets) ==
    LET \* the byte whose first bit is bit k of the stream
        byte(k) == IF k % 6 = 0 THEN sextets[k \div 6 + 1] * 4 + sextets[k \div 6 + 2] \div 16
                   ELSE IF k % 6 = 2
                   THEN (sextets[k \div 6 + 1] % 16) * 16 + sextets[k \div 6 + 2] \div 4
                   ELSE (sextets[k \div 6 + 1] % 4) * 64 + sextets[k \div 6 + 2]
    IN  [i \in 1..((Len(sextets) * 6) \div 8) |-> Chr(byte(8 * (i - 1)))]

\* the DOMException that atob raises; its message differs between engines
\* and decodeBody's catch binds no error, so only the name is kept
InvalidCharacterError == [isError |-> TRUE, name |-> "InvalidCharacterError"]

\* atob (line 99): forgiving-base64 decode.  Whitespace is dropped; when the
\* length is then a multiple of four, one or two trailing "=" are dropped;
\* a length of 1 mod 4, or any character outside the alphabet, is an error.
Atob(s) ==
    LET stripped == Without(s, AsciiWhitespace)
        n == Len(stripped)
        pad == IF n % 4 = 0 /\ n > 0 /\ stripped[n] = "="
               THEN IF stripped[n - 1] = "=" THEN 2 ELSE 1
               ELSE 0
        data == SubSeq(stripped, 1, n - pad)
    IN  IF Len(data) % 4 = 1 \/ \E i \in 1..Len(data) : data[i] \notin Range(Base64Alphabet)
        THEN [threw |-> TRUE, error |-> InvalidCharacterError]
        ELSE [threw |-> FALSE,
              value |-> Base64Bytes([i \in 1..Len(data) |-> Base64Value(data[i])])]

(***************************************************************************)
(* JSON.parse (line 100): a recursive-descent parser of the JSON grammar.  *)
(* A parse step yields [ok, next, value]: whether a value starts at the    *)
(* index, the index after it, and the value.                               *)
(***************************************************************************)
NoParse == [ok |-> FALSE, next |-> 0, value |-> Undefined]
Parsed(next, value) == [ok |-> TRUE, next |-> next, value |-> value]

\* the character at index i, "" past the end
At(s, i) == IF i \in 1..Len(s) THEN s[i] ELSE ""

JsonWhitespace == {" ", Chr(9), Chr(10), Chr(13)}
ControlCharacters == {Chr(n) : n \in 0..31}
Digits == <<"0", "1", "2", "3", "4", "5", "6", "7", "8", "9">>
HexDigits ==
    <<"0", "1", "2", "3", "4", "5", "6", "7", "8", "9", "a", "b", "c", "d", "e", "f">>
UpperHexDigits ==
    <<"0", "1", "2", "3", "4", "5", "6", "7", "8", "9", "A", "B", "C", "D", "E", "F">>

IsDigit(c) == c \in Range(Digits)
IsHexDigit(c) == c \in Range(HexDigits) \cup Range(UpperHexDigits)
HexValue(c) ==
    IF c \in Range(HexDigits) THEN (CHOOSE i \in 1..16 : HexDigits[i] = c) - 1
    ELSE (CHOOSE i \in 1..16 : UpperHexDigits[i] = c) - 1

\* the index of the first character at or after i that is no whitespace
SkipWhitespace(s, i) ==
    IF i > Len(s) THEN i
    ELSE CHOOSE j \in i..(Len(s) + 1) :
             /\ At(s, j) \notin JsonWhitespace
             /\ \A k \in i..(j - 1) : s[k] \in JsonWhitespace

\* the index of the first character at or after i that is no digit
DigitsEnd(s, i) ==
    IF i > Len(s) THEN i
    ELSE CHOOSE j \in i..(Len(s) + 1) :
             ~IsDigit(At(s, j)) /\ \A k \in i..(j - 1) : IsDigit(s[k])

DigitValue(c) == (CHOOSE i \in 1..10 : Digits[i] = c) - 1

\* the number a sequence of digits writes
RECURSIVE DigitsValue(_)
DigitsValue(ds) ==
    IF ds = <<>> THEN 0
    ELSE DigitsValue(SubSeq(ds, 1, Len(ds) - 1)) * 10 + ds[Len(ds)]

(***************************************************************************)
(* The Number that a decimal numeral denotes: the double nearest to it,    *)
(* ties to the even significand, Infinity beyond the largest double.  The  *)
(* arithmetic is exact: a natural number of any size is the sequence of    *)
(* its decimal digits, most significant first, zero the empty sequence.    *)
(***************************************************************************)
\* a without its leading zeros
StripZeros(a) ==
    IF \A i \in 1..Len(a) : a[i] = 0 THEN <<>>
    ELSE SubSeq(a, CHOOSE i \in 1..Len(a) :
                       a[i] # 0 /\ \A j \in 1..(i - 1) : a[j] = 0,
                Len(a))

Zeros(n) == [i \in 1..n |-> 0]

BigLess(a, b) ==
    \/ Len(a) < Len(b)
    \/ /\ Len(a) = Len(b)
       /\ \E i \in 1..Len(a) : a[i] < b[i] /\ \A j \in 1..(i - 1) : a[j] = b[j]

\* a + b.  The column at i takes a carry when the first column after it
\* that does not sum to 9 overflows.
BigPlus(a, b) ==
    LET n == 1 + (IF Len(a) > Len(b) THEN Len(a) ELSE Len(b))
        x == Zeros(n - Len(a)) \o a
        y == Zeros(n - Len(b)) \o b
        column == [i \in 1..(n + 1) |-> IF i > n THEN 0 ELSE x[i] + y[i]]
        carry(i) ==
            column[CHOOSE j \in (i + 1)..(n + 1) :
                       column[j] # 9 /\ \A k \in (i + 1)..(j - 1) : column[k] = 9] >= 10
    IN  StripZeros([i \in 1..n |-> (column[i] + (IF carry(i) THEN 1 ELSE 0)) % 10])

\* a - b, for a >= b.  The column at i lends when the first column after it
\* that is not level is short.
BigMinus(a, b) ==
    LET n == Len(a)
        y == Zeros(n - Len(b)) \o b
        column == [i \in 1..(n + 1) |-> IF i > n THEN 1 ELSE a[i] - y[i]]
        borrow(i) ==
            column[CHOOSE j \in (i + 1)..(n + 1) :
                       column[j] # 0 /\ \A k \in (i + 1)..(j - 1) : column[k] = 0] < 0
    IN  StripZeros([i \in 1..n |->
                       (column[i] - (IF borrow(i) THEN 1 ELSE 0) + 10) % 10])

BigDouble(a) == BigPlus(a, a)

\* a * 2^24.  Each digit times 2^24 has at most nine digits; the product is
\* the sum, over the nine places, of the numbers those digits make.
TimesTwoTo24(a) ==
    LET shifted(p, k) ==
            LET place == StripZeros([i \in 1..Len(a) |-> ((a[i] * 16777216) \div p) % 10])
            IN  IF place = <<>> THEN <<>> ELSE place \o Zeros(k)
    IN  BigPlus(BigPlus(BigPlus(shifted(1, 0), shifted(10, 1)),
                        BigPlus(shifted(100, 2), shifted(1000, 3))),
                BigPlus(BigPlus(BigPlus(shifted(10000, 4), shifted(100000, 5)),
                                BigPlus(shifted(1000000, 6), shifted(10000000, 7))),
                        shifted(100000000, 8)))

\* num / den = (result.num / result.den) * 2^(result.exp - e), with
\* result.num / result.den in [1, 2): powers of two are moved into the
\* exponent, twenty-four at a time while that does not overshoot
RECURSIVE Scale(_, _, _)
Scale(num, den, e) ==
    LET manyNum == TimesTwoTo24(num)
        manyDen == TimesTwoTo24(den)
    IN  IF BigLess(num, den)
        THEN IF BigLess(manyNum, den) THEN Scale(manyNum, den, e - 24)
             ELSE Scale(BigDouble(num), den, e - 1)
        ELSE IF BigLess(num, BigDouble(den)) THEN [num |-> num, den |-> den, exp |-> e]
        ELSE IF BigLess(num, manyDen) THEN Scale(num, BigDouble(den), e + 1)
        ELSE Scale(num, manyDen, e + 24)

\* the first k bits of num / den < 2 after acc, and what is left: the part
\* of num / den below the last bit taken is rest / (2 * den) of that bit
RECURSIVE Quotient(_, _, _, _)
Quotient(num, den, k, acc) ==
    IF k = 0 THEN [bits |-> acc, rest |-> num]
    ELSE LET one == ~BigLess(num, den)
             r == IF one THEN BigMinus(num, den) ELSE num
         IN  Quotient(BigDouble(r), den, k - 1, Append(acc, IF one THEN 1 ELSE 0))

\* bits + 1, one bit longer when every bit was 1: the zero before the
\* trailing ones becomes 1 and the ones after it 0
Increment(bits) ==
    IF \A i \in 1..Len(bits) : bits[i] = 1 THEN <<1>> \o [i \in 1..Len(bits) |-> 0]
    ELSE LET last == CHOOSE i \in 1..Len(bits) :
                         bits[i] = 0 /\ \A j \in (i + 1)..Len(bits) : bits[j] = 1
         IN  [i \in 1..Len(bits) |-> IF i < last THEN bits[i]
                                     ELSE IF i = last THEN 1 ELSE 0]

StripTrailingZeros(bits) ==
    IF \A i \in 1..Len(bits) : bits[i] = 0 THEN <<>>
    ELSE SubSeq(bits, 1, CHOOSE i \in 1..Len(bits) :
                             bits[i] = 1 /\ \A j \in (i + 1)..Len(bits) : bits[j] = 0)

\* the bits a double keeps of a number whose leading bit is 2^e: 53, fewer
\* below 2^-1022 where the last bit stays at 2^-1074
Precision(e) == IF e >= -1022 THEN 53 ELSE e + 1075

\* the double nearest to sc.num / sc.den * 2^sc.exp, whose first bits are
\* q.bits: up when what is left is more than half of the last bit, to the
\* even significand when it is the half, Infinity above 2^1023
Nearest(neg, sc, q) ==
    LET odd == q.bits # <<>> /\ q.bits[Len(q.bits)] = 1
        up == BigLess(sc.den, q.rest) \/ (q.rest = sc.den /\ odd)
        rounded == IF up THEN Increment(q.bits) ELSE q.bits
        leading == IF Len(rounded) > Precision(sc.exp) THEN sc.exp + 1 ELSE sc.exp
    IN  IF rounded = <<>> THEN JNumber(neg, <<>>, 0)
        ELSE IF leading > 1023 THEN JInfinity(neg)
        ELSE JNumber(neg, StripTrailingZeros(rounded), leading)

\* the double nearest to num / den = sc.num / sc.den * 2^sc.exp
Rounded(neg, sc) ==
    IF Precision(sc.exp) < 0 THEN JNumber(neg, <<>>, 0)
    ELSE Nearest(neg, sc, Quotient(sc.num, sc.den, Precision(sc.exp), <<>>))

\* the double nearest to digits * 10^dexp.  A numeral of 10^309 or more is
\* beyond every double, and one below 10^-324 is nearer to 0 than to 2^-1074.
ToDouble(neg, digits, dexp) ==
    LET m == StripZeros(digits)
        magnitude == Len(m) - 1 + dexp
    IN  IF m = <<>> \/ magnitude <= -325 THEN JNumber(neg, <<>>, 0)
        ELSE IF magnitude >= 309 THEN JInfinity(neg)
        ELSE Rounded(neg, Scale(IF dexp > 0 THEN m \o Zeros(dexp) ELSE m,
                                IF dexp < 0 THEN <<1>> \o Zeros(0 - dexp) ELSE <<1>>,
                                0))

\* true, false, null
ParseLiteral(s, i, word, value) ==
    IF i + Len(word) - 1 <= Len(s) /\ SubSeq(s, i, i + Len(word) - 1) = word
    THEN Parsed(i + Len(word), value)
    ELSE NoParse

\* -? (0 | [1-9][0-9]*) (. [0-9]+)? ([eE] [+-]? [0-9]+)?
ParseNumber(s, i) ==
    LET negative == At(s, i) = "-"
        intStart == IF negative THEN i + 1 ELSE i
        intEnd == IF At(s, intStart) = "0" THEN intStart + 1 ELSE DigitsEnd(s, intStart)
        hasFraction == At(s, intEnd) = "."
        fracEnd == IF hasFraction THEN DigitsEnd(s, intEnd + 1) ELSE intEnd
        hasExponent == At(s, fracEnd) \in {"e", "E"}
        expStart == IF At(s, fracEnd + 1) \in {"+", "-"} THEN fracEnd + 2 ELSE fracEnd + 1
        expEnd == IF hasExponent THEN DigitsEnd(s, expStart) ELSE fracEnd
        fracDigits == IF hasFraction THEN SubSeq(s, intEnd + 1, fracEnd - 1) ELSE <<>>
        mantissa == SubSeq(s, intStart, intEnd - 1) \o fracDigits
        expDigits == StripZeros([k \in 1..(expEnd - expStart) |->
                                    DigitValue(s[expStart + k - 1])])
        \* an exponent of more than six digits is beyond any double whatever
        \* the mantissa of a numeral that fits a string
        expValue == IF Len(expDigits) > 6 THEN 1000000 ELSE DigitsValue(expDigits)
        exponent == IF ~hasExponent THEN 0
                    ELSE IF At(s, fracEnd + 1) = "-" THEN 0 - expValue
                    ELSE expValue
    IN  IF \/ intEnd = intStart
           \/ hasFraction /\ fracDigits = <<>>
           \/ hasExponent /\ expEnd = expStart
        THEN NoParse
        ELSE Parsed(expEnd,
                    ToDouble(negative,
                             [k \in 1..Len(mantissa) |-> DigitValue(mantissa[k])],
                             exponent - Len(fracDigits)))

\* the characters of a string up to its closing quote; acc holds those read
RECURSIVE ParseCharacters(_, _, _)
ParseCharacters(s, i, acc) ==
    LET c == At(s, i)
        d == At(s, i + 1)
    IN  IF c = "" \/ c \in ControlCharacters THEN NoParse
        ELSE IF c = "\"" THEN Parsed(i + 1, JString(acc))
        ELSE IF c # "\\" THEN ParseCharacters(s, i + 1, Append(acc, c))
        ELSE IF d \in {"\"", "\\", "/"} THEN ParseCharacters(s, i + 2, Append(acc, d))
        ELSE IF d = "b" THEN ParseCharacters(s, i + 2, Append(acc, Chr(8)))
        ELSE IF d = "f" THEN ParseCharacters(s, i + 2, Append(acc, Chr(12)))
        ELSE IF d = "n" THEN ParseCharacters(s, i + 2, Append(acc, Chr(10)))
        ELSE IF d = "r" THEN ParseCharacters(s, i + 2, Append(acc, Chr(13)))
        ELSE IF d = "t" THEN ParseCharacters(s, i + 2, Append(acc, Chr(9)))
        ELSE IF d = "u" /\ \A k \in 2..5 : IsHexDigit(At(s, i + k))
        THEN ParseCharacters(s, i + 6,
                 Append(acc, Chr(HexValue(s[i + 2]) * 4096 + HexValue(s[i + 3]) * 256
                                 + HexValue(s[i + 4]) * 16 + HexValue(s[i + 5]))))
        ELSE NoParse

ParseString(s, i) ==
    IF At(s, i) = "\"" THEN ParseCharacters(s, i + 1, <<>>) ELSE NoParse

\* an array index: the decimal numeral, without leading zeros, of an
\* integer from 0 to 2^32 - 2
IsArrayIndex(key) ==
    /\ key # <<>>
    /\ \A i \in 1..Len(key) : IsDigit(key[i])
    /\ key[1] = "0" => Len(key) = 1
    /\ BigLess([i \in 1..Len(key) |-> DigitValue(key[i])],
               <<4, 2, 9, 4, 9, 6, 7, 2, 9, 5>>)

\* does the property named a come before a new property named b: an object
\* enumerates its array indices first, in ascending order, and then its
\* other keys in the order in which they were added
KeyBefore(a, b) ==
    IF IsArrayIndex(b)
    THEN /\ IsArrayIndex(a)
         /\ BigLess([i \in 1..Len(a) |-> DigitValue(a[i])],
                    [i \in 1..Len(b) |-> DigitValue(b[i])])
    ELSE TRUE

\* props with key set to value: a key that is there keeps its place
PutProp(props, key, value) ==
    IF \E k \in 1..Len(props) : props[k][1] = key
    THEN [k \in 1..Len(props) |->
             IF props[k][1] = key THEN <<key, value>> ELSE props[k]]
    ELSE LET before == Cardinality({k \in 1..Len(props) : KeyBefore(props[k][1], key)})
         IN  SubSeq(props, 1, before) \o << <<key, value>> >>
             \o SubSeq(props, before + 1, Len(props))

RECURSIVE ParseValue(_, _)
RECURSIVE ParseElements(_, _, _)
RECURSIVE ParseMembers(_, _, _)

\* the elements of an array from index i on, which starts a value
ParseElements(s, i, acc) ==
    LET v == ParseValue(s, i)
        k == SkipWhitespace(s, v.next)
    IN  IF ~v.ok THEN NoParse
        ELSE IF At(s, k) = ","
        THEN ParseElements(s, SkipWhitespace(s, k + 1), Append(acc, v.value))
        ELSE IF At(s, k) = "]" THEN Parsed(k + 1, JArray(Append(acc, v.value)))
        ELSE NoParse

\* the members of an object from index i on, which starts a key
ParseMembers(s, i, acc) ==
    LET key == ParseString(s, i)
        colon == SkipWhitespace(s, key.next)
        v == ParseValue(s, SkipWhitespace(s, colon + 1))
        k == SkipWhitespace(s, v.next)
    IN  IF ~key.ok \/ At(s, colon) # ":" THEN NoParse
        ELSE IF ~v.ok THEN NoParse
        ELSE IF At(s, k) = ","
        THEN ParseMembers(s, SkipWhitespace(s, k + 1), PutProp(acc, key.value.s, v.value))
        ELSE IF At(s, k) = "}"
        THEN Parsed(k + 1, JObject(PutProp(acc, key.value.s, v.value)))
        ELSE NoParse

ParseValue(s, i) ==
    LET c == At(s, i)
        k == SkipWhitespace(s, i + 1)
    IN  IF c = "{"
        THEN IF At(s, k) = "}" THEN Parsed(k + 1, JObject(<<>>))
             ELSE ParseMembers(s, k, <<>>)
        ELSE IF c = "["
        THEN IF At(s, k) = "]" THEN Parsed(k + 1, JArray(<<>>))
             ELSE ParseElements(s, k, <<>>)
        ELSE IF c = "\"" THEN ParseString(s, i)
        ELSE IF c = "t" THEN ParseLiteral(s, i, <<"t", "r", "u", "e">>, JBoolean(TRUE))
        ELSE IF c = "f" THEN ParseLiteral(s, i, <<"f", "a", "l", "s", "e">>, JBoolean(FALSE))
        ELSE IF c = "n" THEN ParseLiteral(s, i, <<"n", "u", "l", "l">>, JNull)
        ELSE IF c = "-" \/ IsDigit(c) THEN ParseNumber(s, i)
        ELSE NoParse

\* JSON.parse: one value with whitespace around it, or a SyntaxError, whose
\* message nothing reads
JSONParse(s) ==
    LET v == ParseValue(s, SkipWhitespace(s, 1))
    IN  IF v.ok /\ SkipWhitespace(s, v.next) = Len(s) + 1
        THEN [threw |-> FALSE, value |-> v.value]
        ELSE [threw |-> TRUE, error |-> [isError |-> TRUE, name |-> "SyntaxError"]]

\* a decodeBody that returns the decoded text when it is not JSON
decodeBodyKeepingDecodedText(b) ==
    LET decodedText == Atob(b)
    IN  IF decodedText.threw THEN [threw |-> FALSE, value |-> JString(b)]
        ELSE LET parsed == JSONParse(decodedText.value)
             IN  IF parsed.threw
                 THEN [threw |-> FALSE, value |-> JString(decodedText.value)]
                 ELSE [threw |-> FALSE, value |-> parsed.value]

\* lines 97-104: try { return JSON.parse(atob(body)) } catch { return body }
decodeBody(b) ==
    LET decodedText == Atob(b)
    IN  IF decodedText.threw THEN [threw |-> FALSE, value |-> JString(b)]
        ELSE LET parsed == JSONParse(decodedText.value)
             IN  IF parsed.threw THEN [threw |-> FALSE, value |-> JString(b)]
                 ELSE [threw |-> FALSE, value |-> parsed.value]


(***************************************************************************)
(* The bodies decodeBody is applied to: every string of at most MaxBodyLen *)
(* characters of BodyAlphabet, and a few longer ones.                      *)
(***************************************************************************)
MaxBodyLen == 4

BodyAlphabet == {"M", "Q", "T", "A", "=", "!", " "}

\*   eyJhIjoxfQ==     {"a":1}
\*   not-base64!!     not base64
\*   W10=             []
\*   e30=             {}
\*   IiI=             ""
\*   bnVsbA==         null
\*   dHJ1ZQ           true, unpadded
\*   WzEsMl0=         [1,2]
\*   LTEuNWUy         -1.5e2
\*   ImFcbiI=         "a\n"
\*   e2E6MX0=         {a:1}, not JSON
\*   MDE=             01, not JSON
\*   WzEsXQ==         [1,], not JSON
\*   eyJhIjoxfQ=      misplaced padding
\*   eyJh IjoxfQ==    {"a":1} with a space inside
\*   aGVsbG8=         hello, not JSON
\*   eyJiIjoxLCIxIjoyfQ==         {"b":1,"1":2}, the key 1 is enumerated first
\*   MWU0MDA=                     1e400, beyond every double
\*   OTAwNzE5OTI1NDc0MDk5Mw==     9007199254740993, which is 2^53 + 1
ExampleBodies ==
    {
     <<"e", "y", "J", "h", "I", "j", "o", "x", "f", "Q", "=", "=">>,
     <<"n", "o", "t", "-", "b", "a", "s", "e", "6", "4", "!", "!">>,
     <<"W", "1", "0", "=">>,
     <<"e", "3", "0", "=">>,
     <<"I", "i", "I", "=">>,
     <<"b", "n", "V", "s", "b", "A", "=", "=">>,
     <<"d", "H", "J", "1", "Z", "Q">>,
     <<"W", "z", "E", "s", "M", "l", "0", "=">>,
     <<"L", "T", "E", "u", "N", "W", "U", "y">>,
     <<"I", "m", "F", "c", "b", "i", "I", "=">>,
     <<"e", "2", "E", "6", "M", "X", "0", "=">>,
     <<"M", "D", "E", "=">>,
     <<"W", "z", "E", "s", "X", "Q", "=", "=">>,
     <<"e", "y", "J", "h", "I", "j", "o", "x", "f", "Q", "=">>,
     <<"e", "y", "J", "h", " ", "I", "j", "o", "x", "f", "Q", "=", "=">>,
     <<"a", "G", "V", "s", "b", "G", "8", "=">>,
     <<"e", "y", "J", "i", "I", "j", "o", "x", "L", "C", "I", "x", "I", "j",
       "o", "y", "f", "Q", "=", "=">>,
     <<"M", "W", "U", "0", "M", "D", "A", "=">>,
     <<"O", "T", "A", "w", "N", "z", "E", "5", "O", "T", "I", "1", "N", "D",
       "c", "0", "M", "D", "k", "5", "M", "w", "=", "=">>
    }

BodyInputs ==
    UNION {[1..n -> BodyAlphabet] : n \in 0..MaxBodyLen} \cup ExampleBodies

\* line 289: decodeBody(event.body)
DecodeBody ==
    /\ decoded = NotDecoded
    /\ decoded' = decodeBody(body)
    /\ UNCHANGED <<events, loading, apiUrl, showSettings, bearerToken, mounted,
                   inflight, toastCount, lastToast, started, crashed,
                   renderPending, disabled, body>>

InitDecode ==
    /\ events = <<>>
    /\ loading = FALSE
    /\ apiUrl = DefaultUrl
    /\ showSettings = FALSE
    /\ bearerToken = ""
    /\ mounted = FALSE
    /\ inflight = {}
    /\ toastCount = 0
    /\ lastToast = NoToast
    /\ started = 0
    /\ crashed = FALSE
    /\ renderPending = FALSE
    /\ disabled = FALSE
    /\ body \in BodyInputs
    /\ decoded = NotDecoded

NextDecode == DecodeBody

SpecDecode == InitDecode /\ [][NextDecode]_vars

\* C8: decodeBody never raises; it returns the body string unchanged when
\* base64 decoding fails or the decoded text is not JSON, and the parsed
\* value when both succeed: {a: 1} for "eyJhIjoxfQ==", the string itself
\* for "not-base64!!" and for any string with a character that is neither
\* of the base64 alphabet, nor whitespace, nor "=".  The parsed value is the
\* one JSON.parse yields: {"1": 2, "b": 1} in that order for {"b":1,"1":2},
\* Infinity for 1e400, 2^53 for 9007199254740993.
C8_DecodeBodyIsBestEffort ==
    decoded # NotDecoded =>
        /\ decoded.threw = FALSE
        /\ LET text == Atob(body)
           IN  IF text.threw THEN decoded.value = JString(body)
               ELSE IF JSONParse(text.value).threw THEN decoded.value = JString(body)
               ELSE decoded.value = JSONParse(text.value).value
        /\ body = <<"e", "y", "J", "h", "I", "j", "o", "x", "f", "Q", "=", "=">>
              => decoded.value = JObject(<< << <<"a">>, JNumber(FALSE, <<1>>, 0) >> >>)
        /\ body = <<"n", "o", "t", "-", "b", "a", "s", "e", "6", "4", "!", "!">>
              => decoded.value = JString(body)
        /\ body = <<"e", "y", "J", "i", "I", "j", "o", "x", "L", "C", "I", "x", "I", "j",
                    "o", "y", "f", "Q", "=", "=">>
              => decoded.value =
                    JObject(<< << <<"1">>, JNumber(FALSE, <<1>>, 1) >>,
                               << <<"b">>, JNumber(FALSE, <<1>>, 0) >> >>)
        /\ body = <<"M", "W", "U", "0", "M", "D", "A", "=">>
              => decoded.value = JInfinity(FALSE)
        /\ body = <<"O", "T", "A", "w", "N", "z", "E", "5", "O", "T", "I", "1", "N", "D",
                    "c", "0", "M", "D", "k", "5", "M", "w", "=", "=">>
              => decoded.value = JNumber(FALSE, <<1>>, 53)
        /\ (\E i \in 1..Len(body) :
               body[i] \notin Range(Base64Alphabet) \cup AsciiWhitespace \cup {"="})
              => decoded.value = JString(body)

\* a body that is base64 of text that is not JSON came back unchanged
C8_Witness ==
    /\ decoded # NotDecoded
    /\ ~Atob(body).threw
    /\ Len(Atob(body).value) > 0
    /\ JSONParse(Atob(body).value).threw
    /\ decoded.value = JString(body)

====
